---- MODULE Spec2Model ----
(***************************************************************************)
(* State-machine model of the gaode_commute Home Assistant integration:    *)
(* the configuration wizard (config_flow.py), the entry setup and the      *)
(* refresh coordinator (__init__.py).                                      *)
(*                                                                         *)
(* Strings are sequences of one-character strings, so that prefix tests,   *)
(* substring tests, concatenation and number parsing are computed as the   *)
(* Python code computes them.  A Python float is a record                  *)
(* [kind, num, den]: the finite value num/den (den a power of ten), or     *)
(* kind "inf" / "nan".                                                     *)
(***************************************************************************)
EXTENDS Integers, Sequences, FiniteSets, TLC

VARIABLES
    flow,           \* ConfigFlow instance attributes (set by the wizard steps)
    step_result,    \* what the last wizard step call was given and returned
    created,        \* configuration entry persisted by async_create_entry
    hass_states,    \* hass.states: entity id -> state (presence, attributes)
    entry,          \* the ConfigEntry: data and options
    coordinator,    \* GaodeDataUpdateCoordinator instance of the entry (or none)
    setup_result,   \* what the last async_setup_entry call returned
    hass_data,      \* hass.data[DOMAIN]: entry ids with a registered coordinator
    pc,             \* position of the refresh task: idle, driving, transit
    tick,           \* the refresh in progress (inputs seen, requests issued)
    data,           \* coordinator.data: the latest Snapshot
    last_refresh,   \* the last completed refresh: inputs, requests, outcome
    sensor,         \* the GaodeCommuteSensor of the entry: _attr_available
    last_read       \* the last read of a sensor property: what it saw, returned

wizardVars == <<flow, step_result, created>>
hostVars == <<hass_states, entry, coordinator, setup_result, hass_data>>
tickVars == <<pc, tick, data, last_refresh>>
sensorVars == <<sensor, last_read>>
vars == <<flow, step_result, created, hass_states, entry, coordinator,
          setup_result, hass_data, pc, tick, data, last_refresh, sensor,
          last_read>>

(***************************************************************************)
(* Python values and conversions                                           *)
(***************************************************************************)

Digits == {"0", "1", "2", "3", "4", "5", "6", "7", "8", "9"}

DigitVal(c) ==
    CASE c = "0" -> 0 [] c = "1" -> 1 [] c = "2" -> 2 [] c = "3" -> 3
      [] c = "4" -> 4 [] c = "5" -> 5 [] c = "6" -> 6 [] c = "7" -> 7
      [] c = "8" -> 8 [] c = "9" -> 9

AllDigits(s) == Len(s) > 0 /\ \A i \in 1..Len(s) : s[i] \in Digits

RECURSIVE DigitsVal(_)
DigitsVal(s) ==
    IF Len(s) = 0 THEN 0
    ELSE 10 * DigitsVal(SubSeq(s, 1, Len(s) - 1)) + DigitVal(s[Len(s)])

RECURSIVE Pow10(_)
Pow10(k) == IF k = 0 THEN 1 ELSE 10 * Pow10(k - 1)

\* s without one leading sign character
Unsigned(s) == IF Len(s) > 0 /\ s[1] \in {"-", "+"} THEN Tail(s) ELSE s
SignOf(s) == IF Len(s) > 0 /\ s[1] = "-" THEN -1 ELSE 1

\* position of the first "." of s, 0 when there is none
DotPos(s) ==
    IF \E i \in 1..Len(s) : s[i] = "."
    THEN CHOOSE i \in 1..Len(s) : s[i] = "." /\ \A j \in 1..(i - 1) : s[j] # "."
    ELSE 0

Fin(n, d) == [kind |-> "fin", num |-> n, den |-> d]
Inf == [kind |-> "inf", num |-> 1, den |-> 1]
NaN == [kind |-> "nan", num |-> 0, den |-> 1]

\* JSON / Python values: type tag t, characters s (a str), float f (a number)
JStr(s) == [t |-> "str", s |-> s, f |-> Fin(0, 1)]
JNum(n, d) == [t |-> "num", s |-> <<>>, f |-> Fin(n, d)]
JInf == [t |-> "num", s |-> <<>>, f |-> Inf]
JNull == [t |-> "null", s |-> <<>>, f |-> Fin(0, 1)]
JList == [t |-> "list", s |-> <<>>, f |-> Fin(0, 1)]
JMissing == [t |-> "missing", s |-> <<>>, f |-> Fin(0, 1)]

\* results of a conversion: the value, or the exception it raises
Ok(v) == [exc |-> "none", val |-> v]
Raise(e) == [exc |-> e, val |-> Fin(0, 1)]

\* float(str): [sign] digits [. digits], "inf" and "nan"; ValueError otherwise
StrToFloat(s) ==
    LET u == Unsigned(s)
        p == DotPos(u)
        ip == IF p = 0 THEN u ELSE SubSeq(u, 1, p - 1)
        fp == IF p = 0 THEN <<>> ELSE SubSeq(u, p + 1, Len(u))
    IN  IF u = <<"i", "n", "f">> THEN Ok(Inf)
        ELSE IF u = <<"n", "a", "n">> THEN Ok(NaN)
        ELSE IF p = 0 /\ AllDigits(u)
             THEN Ok(Fin(SignOf(s) * DigitsVal(u), 1))
        ELSE IF p > 0 /\ (Len(ip) > 0 \/ Len(fp) > 0)
                /\ (Len(ip) = 0 \/ AllDigits(ip))
                /\ (Len(fp) = 0 \/ AllDigits(fp))
             THEN Ok(Fin(SignOf(s) * (DigitsVal(ip) * Pow10(Len(fp)) + DigitsVal(fp)),
                         Pow10(Len(fp))))
        ELSE Raise("ValueError")

\* float(x)
PyFloat(x) ==
    CASE x.t = "str" -> StrToFloat(x.s)
      [] x.t = "num" -> Ok(x.f)
      [] OTHER -> Raise("TypeError")

\* int(f) of a float: truncation toward zero; inf and nan raise
TruncFloat(f) ==
    CASE f.kind = "inf" -> Raise("OverflowError")
      [] f.kind = "nan" -> Raise("ValueError")
      [] OTHER -> Ok(Fin(IF f.num >= 0 THEN f.num \div f.den
                         ELSE -((-f.num) \div f.den), 1))

\* int(str): [sign] digits; ValueError otherwise
StrToInt(s) ==
    IF AllDigits(Unsigned(s))
    THEN Ok(Fin(SignOf(s) * DigitsVal(Unsigned(s)), 1))
    ELSE Raise("ValueError")

\* int(x)
PyInt(x) ==
    CASE x.t = "str" -> StrToInt(x.s)
      [] x.t = "num" -> TruncFloat(x.f)
      [] OTHER -> Raise("TypeError")

\* int(float(x)), as the interval validation computes it
PyIntFloat(x) ==
    IF PyFloat(x).exc # "none" THEN PyFloat(x) ELSE TruncFloat(PyFloat(x).val)

\* lo <= f <= hi for a float f (every comparison with nan is false)
FloatBetween(lo, f, hi) ==
    CASE f.kind = "nan" -> FALSE
      [] f.kind = "inf" -> FALSE
      [] OTHER -> lo * f.den <= f.num /\ f.num <= hi * f.den

\* value in sub: the substring test
Contains(value, sub) ==
    \E i \in 1..(Len(value) - Len(sub) + 1) :
        SubSeq(value, i, i + Len(sub) - 1) = sub

\* value.startswith(prefix)
StartsWith(value, prefix) ==
    Len(value) >= Len(prefix) /\ SubSeq(value, 1, Len(prefix)) = prefix

EntityPrefix == <<"e", "n", "t", "i", "t", "y", ":">>
Comma == <<",">>
NoneText == <<"N", "o", "n", "e">>

(***************************************************************************)
(* Configuration wizard (config_flow.py)                                   *)
(***************************************************************************)

RECURSIVE Rep(_, _)
Rep(c, n) == IF n = 0 THEN <<>> ELSE <<c>> \o Rep(c, n - 1)

KeyLen == 32
CityMaxLen == 20
MinInterval == 1
MaxInterval == 60
DEFAULT_UPDATE_INTERVAL == 30

AlnumChars == Digits \cup {"a", "b", "c", "j", "k"}

\* str.isalnum(): non-empty and every character alphanumeric
IsAlnum(s) == Len(s) > 0 /\ \A i \in 1..Len(s) : s[i] \in AlnumChars

\* dict.get(key): None when the key is absent
Get(v) == IF v.t = "missing" THEN JNull ELSE v

\* dict.get(key, default)
GetOr(v, default) == IF v.t = "missing" THEN default ELSE v

\* str(x) inside an f-string, for the values the wizard formats
Text(v) == IF v.t = "str" THEN v.s ELSE NoneText

\* an attribute of the flow object: absent until a step assigns it
NoAttr == [has |-> FALSE, v |-> JNull]
Attr(v) == [has |-> TRUE, v |-> v]

\* the two values of the location type selector
EntityChoice == JStr(<<"e", "n", "t", "i", "t", "y", "_", "i", "d">>)
CoordinatesChoice ==
    JStr(<<"c", "o", "o", "r", "d", "i", "n", "a", "t", "e", "s">>)

\* user_input: None, or a dict; each step reads its own keys of it (the
\* display name, which no step validates, is left out)
NoneInput ==
    [none |-> TRUE, city |-> JMissing,
     api_key |-> JMissing, update_interval |-> JMissing,
     location_type |-> JMissing, entity_id |-> JMissing,
     longitude |-> JMissing, latitude |-> JMissing]

DictInput == [NoneInput EXCEPT !.none = FALSE]

NoUserData ==
    [city |-> JMissing, api_key |-> JMissing, update_interval |-> JMissing]

\* the step-1 keys of user_input, as self.origin_data keeps them
UserData(in) ==
    [city |-> in.city, api_key |-> in.api_key,
     update_interval |-> in.update_interval]

EmptyFlow ==
    [origin_data |-> [has |-> FALSE, v |-> NoUserData],
     origin_entity_id |-> NoAttr, origin_coordinates |-> NoAttr,
     destination_entity_id |-> NoAttr, destination_coordinates |-> NoAttr]

NoEntryData ==
    [city |-> JMissing, api_key |-> JMissing,
     update_interval |-> JMissing, origin_entity_id |-> JMissing,
     origin |-> JMissing, destination_entity_id |-> JMissing,
     destination |-> JMissing]

NoEntry == [has |-> FALSE, data |-> NoEntryData]

\* what a step returns: a form to show, an entry to create, or an exception
ShowForm(step_id, err) ==
    [type |-> "form", step_id |-> step_id, errors |-> err, exc |-> "none"]
CreateEntry ==
    [type |-> "create_entry", step_id |-> "", errors |-> "", exc |-> "none"]
Raised(e) == [type |-> "raise", step_id |-> "", errors |-> "", exc |-> e]

Ret(f, r, c) == [flow |-> f, result |-> r, created |-> c]

\* the API key check of step 1
ApiKeyError(api_key) ==
    api_key.t # "str" \/ Len(api_key.s) # KeyLen \/ ~IsAlnum(api_key.s)

\* the city check of step 1
CityError(city) ==
    city.t # "str" \/ Len(city.s) = 0 \/ Len(city.s) > CityMaxLen

\* the update interval check of step 1: "ok", "error" (ValueError or
\* TypeError, caught) or the exception that is not caught
IntervalCheck(update_interval) ==
    LET r == PyIntFloat(update_interval)
    IN  IF r.exc \in {"ValueError", "TypeError"} THEN "error"
        ELSE IF r.exc # "none" THEN r.exc
        ELSE IF r.val.num < MinInterval \/ r.val.num > MaxInterval THEN "error"
        ELSE "ok"

\* async_step_origin
StepOrigin(f, in) ==
    IF ~in.none
    THEN IF in.location_type.t # "missing"
         THEN IF in.location_type = EntityChoice
              THEN Ret(f, ShowForm("origin_entity", ""), NoEntry)
              ELSE Ret(f, ShowForm("origin_coordinates", ""), NoEntry)
         ELSE Ret(f, ShowForm("destination", ""), NoEntry)
    ELSE Ret(f, ShowForm("origin", ""), NoEntry)

\* async_step_user
StepUser(f, in) ==
    IF ~in.none
    THEN LET e1 == IF ApiKeyError(Get(in.api_key)) THEN "invalid_api_key" ELSE ""
             e2 == IF CityError(Get(in.city)) THEN "invalid_city" ELSE e1
             chk == IntervalCheck(GetOr(in.update_interval,
                                        JNum(DEFAULT_UPDATE_INTERVAL, 1)))
             e3 == IF chk = "error" THEN "invalid_update_interval" ELSE e2
         IN  IF chk \notin {"ok", "error"} THEN Ret(f, Raised(chk), NoEntry)
             ELSE IF e3 = ""
             THEN StepOrigin([f EXCEPT !.origin_data =
                                 [has |-> TRUE, v |-> UserData(in)]], NoneInput)
             ELSE Ret(f, ShowForm("user", e3), NoEntry)
    ELSE Ret(f, ShowForm("user", ""), NoEntry)

\* the coordinate check of the two coordinates steps: "ok", "error"
\* (out of range, or ValueError caught) or the exception that is not caught
CoordinatesCheck(longitude, latitude) ==
    LET lon == PyFloat(longitude)
        lat == PyFloat(latitude)
    IN  IF lon.exc = "ValueError" THEN "error"
        ELSE IF lon.exc # "none" THEN lon.exc
        ELSE IF lat.exc = "ValueError" THEN "error"
        ELSE IF lat.exc # "none" THEN lat.exc
        ELSE IF ~FloatBetween(-90, lat.val, 90) \/ ~FloatBetween(-180, lon.val, 180)
             THEN "error"
        ELSE "ok"

\* f"{longitude},{latitude}"
CoordinatesText(longitude, latitude) ==
    JStr(Text(longitude) \o Comma \o Text(latitude))

\* a variant that prefers recorded coordinates to a recorded entity id
FinishData_CoordinatesFirst(f) ==
    [city |-> Get(f.origin_data.v.city),
     api_key |-> Get(f.origin_data.v.api_key),
     update_interval |-> GetOr(f.origin_data.v.update_interval,
                               JNum(DEFAULT_UPDATE_INTERVAL, 1)),
     origin_entity_id |->
         IF f.origin_entity_id.has THEN f.origin_entity_id.v ELSE JMissing,
     origin |->
         IF f.origin_coordinates.has THEN f.origin_coordinates.v
         ELSE JStr(EntityPrefix \o Text(f.origin_entity_id.v)),
     destination_entity_id |->
         IF f.destination_entity_id.has THEN f.destination_entity_id.v
         ELSE JMissing,
     destination |->
         IF f.destination_coordinates.has THEN f.destination_coordinates.v
         ELSE JStr(EntityPrefix \o Text(f.destination_entity_id.v))]

\* the data of the entry async_step_finish assembles
FinishData(f) ==
    [city |-> Get(f.origin_data.v.city),
     api_key |-> Get(f.origin_data.v.api_key),
     update_interval |-> GetOr(f.origin_data.v.update_interval,
                               JNum(DEFAULT_UPDATE_INTERVAL, 1)),
     origin_entity_id |->
         IF f.origin_entity_id.has THEN f.origin_entity_id.v ELSE JMissing,
     origin |->
         IF f.origin_entity_id.has
         THEN JStr(EntityPrefix \o Text(f.origin_entity_id.v))
         ELSE f.origin_coordinates.v,
     destination_entity_id |->
         IF f.destination_entity_id.has THEN f.destination_entity_id.v
         ELSE JMissing,
     destination |->
         IF f.destination_entity_id.has
         THEN JStr(EntityPrefix \o Text(f.destination_entity_id.v))
         ELSE f.destination_coordinates.v]

\* async_step_destination with user_input None
ShowDestination(f) == Ret(f, ShowForm("destination", ""), NoEntry)

\* a variant that persists without looking for the step-1 data
StepFinish_NoUserCheck(f) ==
    IF ~f.origin_entity_id.has /\ ~f.origin_coordinates.has
    THEN StepOrigin(f, NoneInput)
    ELSE IF ~f.destination_entity_id.has /\ ~f.destination_coordinates.has
         THEN ShowDestination(f)
    ELSE Ret(f, CreateEntry, [has |-> TRUE, data |-> FinishData(f)])

\* async_step_finish
StepFinish(f) ==
    IF ~f.origin_data.has THEN StepUser(f, NoneInput)
    ELSE IF ~f.origin_entity_id.has /\ ~f.origin_coordinates.has
         THEN StepOrigin(f, NoneInput)
    ELSE IF ~f.destination_entity_id.has /\ ~f.destination_coordinates.has
         THEN ShowDestination(f)
    ELSE Ret(f, CreateEntry, [has |-> TRUE, data |-> FinishData(f)])

\* async_step_destination
StepDestination(f, in) ==
    IF ~in.none
    THEN IF in.location_type.t # "missing"
         THEN IF in.location_type = EntityChoice
              THEN Ret(f, ShowForm("destination_entity", ""), NoEntry)
              ELSE Ret(f, ShowForm("destination_coordinates", ""), NoEntry)
         ELSE StepFinish(f)
    ELSE ShowDestination(f)

\* async_step_origin_entity
StepOriginEntity(f, in) ==
    IF ~in.none
    THEN ShowDestination([f EXCEPT !.origin_entity_id = Attr(Get(in.entity_id))])
    ELSE Ret(f, ShowForm("origin_entity", ""), NoEntry)

\* async_step_origin_coordinates
StepOriginCoordinates(f, in) ==
    IF ~in.none
    THEN LET chk == CoordinatesCheck(Get(in.longitude), Get(in.latitude))
         IN  IF chk = "ok"
             THEN ShowDestination([f EXCEPT !.origin_coordinates =
                     Attr(CoordinatesText(Get(in.longitude), Get(in.latitude)))])
             ELSE IF chk = "error"
             THEN Ret(f, ShowForm("origin_coordinates", "invalid_coordinates"),
                      NoEntry)
             ELSE Ret(f, Raised(chk), NoEntry)
    ELSE Ret(f, ShowForm("origin_coordinates", ""), NoEntry)

\* async_step_destination_entity
StepDestinationEntity(f, in) ==
    IF ~in.none
    THEN StepFinish([f EXCEPT !.destination_entity_id = Attr(Get(in.entity_id))])
    ELSE Ret(f, ShowForm("destination_entity", ""), NoEntry)

\* async_step_destination_coordinates
StepDestinationCoordinates(f, in) ==
    IF ~in.none
    THEN LET chk == CoordinatesCheck(Get(in.longitude), Get(in.latitude))
         IN  IF chk = "ok"
             THEN StepFinish([f EXCEPT !.destination_coordinates =
                     Attr(CoordinatesText(Get(in.longitude), Get(in.latitude)))])
             ELSE IF chk = "error"
             THEN Ret(f, ShowForm("destination_coordinates",
                                  "invalid_coordinates"), NoEntry)
             ELSE Ret(f, Raised(chk), NoEntry)
    ELSE Ret(f, ShowForm("destination_coordinates", ""), NoEntry)

(***************************************************************************)
(* Wizard inputs                                                           *)
(***************************************************************************)

ValidKey == JStr(Rep("k", KeyLen))
ValidCity == JStr(Rep("c", CityMaxLen))

ApiKeys ==
    {ValidKey, JStr(Rep("k", KeyLen - 1)),
     JStr(Rep("k", KeyLen - 1) \o <<"-">>), JMissing}

Cities == {ValidCity, JStr(<<>>), JStr(Rep("c", CityMaxLen + 1)), JMissing}

ValidInterval == JNum(MaxInterval, 1)

Intervals ==
    {JMissing, JNum(MinInterval, 1), ValidInterval,
     JNum(10 * MaxInterval + 9, 10), JNum(MinInterval - 1, 1),
     JNum(MaxInterval + 1, 1), JNum(-5, 1), JNum(5, 10),
     JStr(<<"a", "b", "c">>), JInf, JNull}

\* step-1 submissions: every field valid but at most one, and one with
\* all three invalid
UserInputs ==
    {[DictInput EXCEPT !.api_key = k, !.city = c, !.update_interval = i] :
        k \in ApiKeys, c \in {ValidCity}, i \in {ValidInterval}}
    \cup {[DictInput EXCEPT !.api_key = k, !.city = c, !.update_interval = i] :
        k \in {ValidKey}, c \in Cities, i \in {ValidInterval}}
    \cup {[DictInput EXCEPT !.api_key = k, !.city = c, !.update_interval = i] :
        k \in {ValidKey}, c \in {ValidCity}, i \in Intervals}
    \cup {[DictInput EXCEPT !.api_key = JMissing, !.city = JStr(<<>>),
                            !.update_interval = JNum(MaxInterval + 1, 1)]}

TypeInputs ==
    {[DictInput EXCEPT !.location_type = t] :
        t \in {EntityChoice, CoordinatesChoice, JMissing}}

EntityIds == {JStr(<<"p", ".", "a">>)}

EntityInputs ==
    {[DictInput EXCEPT !.entity_id = e] : e \in EntityIds \cup {JMissing}}

Longitudes ==
    {JStr(<<"1", "1", "6", ".", "4">>), JStr(<<"-", "1", "8", "0">>),
     JStr(<<"1", "8", "1">>), JStr(<<"a">>), JMissing}

Latitudes ==
    {JStr(<<"9", "0">>), JStr(<<"9", "1">>), JStr(<<"n", "a", "n">>), JMissing}

CoordinateInputs ==
    {[DictInput EXCEPT !.longitude = x, !.latitude = y] :
        x \in Longitudes, y \in Latitudes}

(***************************************************************************)
(* Wizard actions: the host calls a step handler with the user's input     *)
(***************************************************************************)

NoStep == [step |-> "none", input |-> NoneInput, result |-> ShowForm("", "")]

\* the effect of one step call that returned ret
StepCall(step, in, ret) ==
    /\ ~created.has
    /\ flow' = ret.flow
    /\ created' = ret.created
    /\ step_result' = [step |-> step, input |-> in, result |-> ret.result]
    /\ UNCHANGED <<hostVars, tickVars, sensorVars>>

CallUser ==
    \E in \in UserInputs \cup {NoneInput} : StepCall("user", in, StepUser(flow, in))

CallOrigin ==
    \E in \in TypeInputs \cup {NoneInput} :
        StepCall("origin", in, StepOrigin(flow, in))

CallOriginEntity ==
    \E in \in EntityInputs \cup {NoneInput} :
        StepCall("origin_entity", in, StepOriginEntity(flow, in))

CallOriginCoordinates ==
    \E in \in CoordinateInputs \cup {NoneInput} :
        StepCall("origin_coordinates", in, StepOriginCoordinates(flow, in))

CallDestination ==
    \E in \in TypeInputs \cup {NoneInput} :
        StepCall("destination", in, StepDestination(flow, in))

CallDestinationEntity ==
    \E in \in EntityInputs \cup {NoneInput} :
        StepCall("destination_entity", in, StepDestinationEntity(flow, in))

CallDestinationCoordinates ==
    \E in \in CoordinateInputs \cup {NoneInput} :
        StepCall("destination_coordinates", in,
                 StepDestinationCoordinates(flow, in))

CallFinish ==
    \E in \in {NoneInput, DictInput} : StepCall("finish", in, StepFinish(flow))

\* the host starts a new flow: a ConfigFlow object with no attribute set
StartFlow ==
    /\ created.has
    /\ flow' = EmptyFlow
    /\ created' = NoEntry
    /\ step_result' = NoStep
    /\ UNCHANGED <<hostVars, tickVars, sensorVars>>

(***************************************************************************)
(* Host state and configuration entries (__init__.py)                      *)
(***************************************************************************)

MaxPos == 2

DigitChar(d) ==
    CASE d = 0 -> "0" [] d = 1 -> "1" [] d = 2 -> "2" [] d = 3 -> "3"
      [] d = 4 -> "4" [] d = 5 -> "5" [] d = 6 -> "6" [] d = 7 -> "7"
      [] d = 8 -> "8" [] d = 9 -> "9"

\* str(n) of a non-negative integer
RECURSIVE IntText(_)
IntText(n) ==
    IF n < 10 THEN <<DigitChar(n)>> ELSE IntText(n \div 10) \o <<DigitChar(n % 10)>>

\* the entity the configured endpoints may refer to
TrackedId == <<"p", ".", "a">>

AbsentEntity == [present |-> FALSE, longitude |-> JMissing, latitude |-> JMissing]

\* the states of the tracked entity: absent, or present with each of the
\* two attributes there or not
EntityStates ==
    {AbsentEntity}
    \cup {[present |-> TRUE, longitude |-> x, latitude |-> y] :
            x \in {JMissing} \cup {JNum(i, 1) : i \in 1..MaxPos},
            y \in {JMissing, JNum(1, 1)}}

\* hass.states.get(entity_id): None (absent) for an id that has no state
StatesGet(states, entity_id) ==
    IF entity_id = TrackedId THEN states ELSE AbsentEntity

\* f"{attrs['longitude']},{attrs['latitude']}"
PositionText(st) ==
    IntText(st.longitude.f.num) \o Comma \o IntText(st.latitude.f.num)

\* _get_coordinates of async_setup_entry: the "lon,lat" text, or None
GetCoordinates(value, states) ==
    IF value.t = "str" /\ Contains(value.s, Comma) THEN value
    ELSE IF value.t = "str"
    THEN LET entity_id == IF StartsWith(value.s, EntityPrefix)
                          THEN SubSeq(value.s, Len(EntityPrefix) + 1, Len(value.s))
                          ELSE value.s
             st == StatesGet(states, entity_id)
         IN  IF ~st.present THEN JNull
             ELSE IF st.longitude.t = "missing" \/ st.latitude.t = "missing"
                  THEN JNull
             ELSE JStr(PositionText(st))
    ELSE JNull

NoCoordinator ==
    [has |-> FALSE, api_key |-> JNull, city |-> JNull, origin |-> JNull,
     destination |-> JNull, update_interval |-> 0]

\* what async_setup_entry does before the first refresh: "false" (return
\* False), an exception it does not catch, or "ok" with the coordinator
SetupChecks(e, states) ==
    LET d == e.data
        update_interval == GetOr(d.update_interval,
                                 JNum(DEFAULT_UPDATE_INTERVAL, 1))
        origin == GetCoordinates(d.origin, states)
        destination == GetCoordinates(d.destination, states)
        iv == PyIntFloat(update_interval)
        No(r) == [outcome |-> r, coordinator |-> NoCoordinator]
    IN  IF \E k \in {d.api_key, d.city, d.origin, d.destination} : k.t = "missing"
        THEN No("false")
        ELSE IF origin.t = "null" \/ destination.t = "null" THEN No("false")
        ELSE IF d.api_key.t # "str" \/ Len(d.api_key.s) # KeyLen THEN No("false")
        ELSE IF d.city.t # "str" \/ Len(d.city.s) = 0 THEN No("false")
        ELSE IF iv.exc \in {"ValueError", "TypeError"} THEN No("false")
        ELSE IF iv.exc # "none" THEN No(iv.exc)
        ELSE IF iv.val.num < MinInterval \/ iv.val.num > MaxInterval
             THEN No("false")
        ELSE IF Len(origin.s) = 0 \/ Len(destination.s) = 0 THEN No("false")
        ELSE [outcome |-> "ok",
              coordinator |->
                  [has |-> TRUE, api_key |-> d.api_key, city |-> d.city,
                   origin |-> origin, destination |-> destination,
                   update_interval |-> iv.val.num]]

\* one endpoint of _update_entity_locations: the endpoint afterwards, and
\* whether the entity it names was found with both attributes
UpdateEndpoint(value, states) ==
    IF value.t = "str" /\ StartsWith(value.s, EntityPrefix)
    THEN LET entity_id == SubSeq(value.s, Len(EntityPrefix) + 1, Len(value.s))
             st == StatesGet(states, entity_id)
         IN  IF ~st.present THEN [ok |-> FALSE, value |-> value]
             ELSE IF st.longitude.t = "missing" \/ st.latitude.t = "missing"
                  THEN [ok |-> FALSE, value |-> value]
             ELSE [ok |-> TRUE, value |-> JStr(PositionText(st))]
    ELSE [ok |-> TRUE, value |-> value]

\* _update_entity_locations: its return value and the coordinator afterwards
UpdateEntityLocations(c, states) ==
    LET o == UpdateEndpoint(c.origin, states)
        d == UpdateEndpoint(c.destination, states)
    IN  IF ~o.ok THEN [ok |-> FALSE, coordinator |-> c]
        ELSE IF ~d.ok
             THEN [ok |-> FALSE, coordinator |-> [c EXCEPT !.origin = o.value]]
        ELSE [ok |-> TRUE,
              coordinator |-> [c EXCEPT !.origin = o.value,
                                        !.destination = d.value]]

(***************************************************************************)
(* API responses and their parsing (__init__.py)                           *)
(***************************************************************************)

\* What one HTTP request comes to.  net: "ok" (a JSON body was decoded),
\* "error" (session.get or response.json() raised: connection failure,
\* malformed JSON) or "timeout" (the 10 s budget ran out while waiting).
\* The body: whether it is an object, its status and info, the shape of
\* route, the shape of the list in it (paths or transits), and the
\* duration and distance fields.  In a driving body both fields are those
\* of paths[0]; in a transit body duration is that of transits[0], distance
\* is route.distance and item_distance is the distance of transits[0].
NoResponse ==
    [net |-> "none", isdict |-> FALSE, status |-> JMissing, info |-> "",
     route |-> "missing", items |-> "missing", duration |-> JMissing,
     distance |-> JMissing, item_distance |-> JMissing]

Body(status, info, route, items, duration, distance) ==
    [net |-> "ok", isdict |-> TRUE, status |-> status, info |-> info,
     route |-> route, items |-> items, duration |-> duration,
     distance |-> distance, item_distance |-> JMissing]

StatusOne == JStr(<<"1">>)
StatusZero == JStr(<<"0">>)

Estimate(duration, distance) == [duration |-> duration, distance |-> distance]
ZeroEstimate == Estimate(0, 0)

\* a variant in which one failed estimate blanks the other
Snapshot_AllOrNothing(driving, transit) ==
    IF driving = ZeroEstimate \/ transit = ZeroEstimate
    THEN [driving |-> ZeroEstimate, transit |-> ZeroEstimate]
    ELSE [driving |-> driving, transit |-> transit]

\* the record _async_update_data returns
Snapshot(driving, transit) == [driving |-> driving, transit |-> transit]
ZeroSnapshot == Snapshot(ZeroEstimate, ZeroEstimate)

\* the body of _fetch_driving_route's try block: the estimate, or the
\* exception raised inside it
DrivingBody(r) ==
    IF r.net = "error" THEN [exc |-> "ClientError", est |-> ZeroEstimate]
    ELSE IF ~r.isdict THEN [exc |-> "AttributeError", est |-> ZeroEstimate]
    ELSE IF r.status = StatusOne
    THEN IF r.route = "nondict"
         THEN [exc |-> "AttributeError", est |-> ZeroEstimate]
         ELSE IF r.route = "missing" \/ r.items \in {"missing", "empty"}
         THEN [exc |-> "none", est |-> ZeroEstimate]
         ELSE IF r.items = "nonlist"
         THEN [exc |-> "TypeError", est |-> ZeroEstimate]
         ELSE IF r.items = "nondict"
         THEN [exc |-> "AttributeError", est |-> ZeroEstimate]
         ELSE LET duration == PyInt(GetOr(r.duration, JNum(0, 1)))
                  distance == PyInt(GetOr(r.distance, JNum(0, 1)))
              IN  IF duration.exc # "none"
                  THEN [exc |-> duration.exc, est |-> ZeroEstimate]
                  ELSE IF distance.exc # "none"
                  THEN [exc |-> distance.exc, est |-> ZeroEstimate]
                  ELSE [exc |-> "none",
                        est |-> Estimate(duration.val.num, distance.val.num)]
    ELSE [exc |-> "none", est |-> ZeroEstimate]

\* a variant that keeps the field that converts beside one that does not
DrivingRoute_KeepGoodField(r) ==
    IF DrivingBody(r).exc \in {"ValueError", "TypeError"}
    THEN LET duration == PyInt(GetOr(r.duration, JNum(0, 1)))
             distance == PyInt(GetOr(r.distance, JNum(0, 1)))
         IN  Estimate(IF duration.exc = "none" THEN duration.val.num ELSE 0,
                      IF distance.exc = "none" THEN distance.val.num ELSE 0)
    ELSE DrivingBody(r).est

\* _fetch_driving_route after the request: except Exception returns {0, 0}
DrivingRoute(r) == DrivingBody(r).est

\* the guarded conversions of _fetch_transit_route: a value of another type
\* gives 0, ValueError and TypeError give 0, anything else is raised
GuardedInt(v) ==
    IF v.t \in {"str", "num"}
    THEN IF PyInt(v).exc \in {"ValueError", "TypeError"} THEN Ok(Fin(0, 1))
         ELSE PyInt(v)
    ELSE Ok(Fin(0, 1))

\* the body of _fetch_transit_route's try block
TransitBody(r) ==
    IF r.net = "error" THEN [exc |-> "ClientError", est |-> ZeroEstimate]
    ELSE IF ~r.isdict THEN [exc |-> "none", est |-> ZeroEstimate]
    ELSE IF r.status = StatusOne
    THEN IF r.route = "nondict" THEN [exc |-> "none", est |-> ZeroEstimate]
         ELSE IF r.route = "dict" /\ r.items = "nonlist"
         THEN [exc |-> "none", est |-> ZeroEstimate]
         ELSE LET distance == GuardedInt(IF r.route = "missing" THEN JNum(0, 1)
                                         ELSE GetOr(r.distance, JNum(0, 1)))
                  duration == GuardedInt(GetOr(r.duration, JNum(0, 1)))
              IN  IF distance.exc # "none"
                  THEN [exc |-> distance.exc, est |-> ZeroEstimate]
                  ELSE IF r.route = "missing" \/ r.items \in {"missing", "empty"}
                  THEN [exc |-> "none", est |-> ZeroEstimate]
                  ELSE IF r.items = "nondict"
                  THEN [exc |-> "none", est |-> ZeroEstimate]
                  ELSE IF duration.exc # "none"
                  THEN [exc |-> duration.exc, est |-> ZeroEstimate]
                  ELSE [exc |-> "none",
                        est |-> Estimate(duration.val.num, distance.val.num)]
    ELSE [exc |-> "none", est |-> ZeroEstimate]

\* a variant that takes the distance of the first transit when it has one
TransitRoute_ItemDistance(r) ==
    IF TransitBody(r).est # ZeroEstimate /\ r.item_distance.t # "missing"
    THEN Estimate(TransitBody(r).est.duration,
                  GuardedInt(r.item_distance).val.num)
    ELSE TransitBody(r).est

\* _fetch_transit_route after the request: except Exception returns {0, 0}
TransitRoute(r) == TransitBody(r).est

\* a variant that reports a timeout to the host as an update failure
AsyncUpdateData_RaiseOnTimeout(exc, v) ==
    IF exc = "TimeoutError" THEN [raised |-> "UpdateFailed", value |-> v]
    ELSE IF exc # "none" THEN [raised |-> "none", value |-> ZeroSnapshot]
    ELSE [raised |-> "none", value |-> v]

\* a variant that returns on a timeout what the refresh had obtained so far
AsyncUpdateData_PartialOnTimeout(exc, v) ==
    IF exc = "TimeoutError" THEN [raised |-> "none", value |-> v]
    ELSE IF exc # "none" THEN [raised |-> "none", value |-> ZeroSnapshot]
    ELSE [raised |-> "none", value |-> v]

\* a variant that reports every failure to the host as UpdateFailed, which
\* leaves the coordinator's earlier data in place
AsyncUpdateData_RaiseOnError(exc, v) ==
    IF exc # "none" THEN [raised |-> "UpdateFailed", value |-> v]
    ELSE [raised |-> "none", value |-> v]

\* the try/except of _async_update_data around a refresh that ended with
\* exception exc (or "none") and value v (on an exception, the estimates
\* obtained until then): what is raised, what is returned
AsyncUpdateData(exc, v) ==
    IF exc = "TimeoutError" THEN [raised |-> "none", value |-> ZeroSnapshot]
    ELSE IF exc # "none" THEN [raised |-> "none", value |-> ZeroSnapshot]
    ELSE [raised |-> "none", value |-> v]

(***************************************************************************)
(* Responses the model draws                                               *)
(***************************************************************************)

Infos == {"INVALID_PARAMS", "INSUFFICIENT_ABROAD_PRIVILEGES", "OTHER"}

GoodField == JStr(<<"9", "0", "0">>)

\* duration and distance fields: numeric strings, a negative numeric
\* string, a non-numeric string, JSON numbers (a float, a negative one),
\* null and an absent key
FieldValues ==
    {GoodField, JStr(<<"-", "5">>), JStr(<<"a">>),
     JNum(75, 10), JNum(-3, 1), JNull, JMissing}

FailedRequests ==
    {[NoResponse EXCEPT !.net = "error"], [NoResponse EXCEPT !.net = "timeout"],
     [NoResponse EXCEPT !.net = "ok"]}
    \cup {Body(StatusZero, i, "missing", "missing", JMissing, JMissing) :
            i \in Infos}
    \cup {Body(JMissing, "OTHER", "missing", "missing", JMissing, JMissing)}

ShapelessBodies ==
    {Body(StatusOne, "OK", "missing", "missing", JMissing, JMissing),
     Body(StatusOne, "OK", "nondict", "missing", JMissing, JMissing)}

\* the two fields of a body: one of them any value beside a good other one,
\* or both negative, or both non-numeric
FieldPairs ==
    {<<t, GoodField>> : t \in FieldValues}
    \cup {<<GoodField, d>> : d \in FieldValues}
    \cup {<<JStr(<<"-", "5">>), JNum(-3, 1)>>, <<JStr(<<"a">>), JNull>>}

\* every outcome of the driving request
DrivingResponses ==
    FailedRequests \cup ShapelessBodies
    \cup {Body(StatusOne, "OK", "dict", i, JMissing, JMissing) :
            i \in {"missing", "empty", "nonlist", "nondict"}}
    \cup {Body(StatusOne, "OK", "dict", "list", p[1], p[2]) : p \in FieldPairs}

\* transit bodies whose first transit carries a distance of its own, beside
\* a route distance and without one
ItemDistanceBodies ==
    {[Body(StatusOne, "OK", "dict", "list", JNum(75, 10), d)
        EXCEPT !.item_distance = JStr(<<"7">>)] : d \in {GoodField, JMissing}}

\* every outcome of the transit request (distance is a field of route)
TransitResponses ==
    FailedRequests \cup ShapelessBodies
    \cup {Body(StatusOne, "OK", "dict", i, JMissing, GoodField) :
            i \in {"missing", "empty", "nonlist", "nondict"}}
    \cup {Body(StatusOne, "OK", "dict", "list", p[1], p[2]) : p \in FieldPairs}
    \cup ItemDistanceBodies

GoodResponse == Body(StatusOne, "OK", "dict", "list", GoodField, GoodField)

\* a few outcomes, for the runs that are about the entry's life cycle
SampleResponses ==
    {GoodResponse, [NoResponse EXCEPT !.net = "error"],
     Body(StatusZero, "INVALID_PARAMS", "missing", "missing", JMissing, JMissing)}

(***************************************************************************)
(* The sensor (sensor.py)                                                  *)
(***************************************************************************)

\* the sensor entity: absent until the platform adds it; _attr_available
NoSensor == [exists |-> FALSE, available |-> FALSE]

\* GaodeCommuteSensor.__init__: _attr_available = False
NewSensor == [exists |-> TRUE, available |-> FALSE]

\* a native value: None, or an integer
None == [defined |-> FALSE, n |-> 0]
Some(n) == [defined |-> TRUE, n |-> n]

SecondsPerMinute == 60
MinutesPerHour == 60
TwoHoursInMinutes == 120
MetersPerKm == 1000

\* round(n / d) for n >= 0: to the nearest integer, a half to the even one
PyRound(n, d) ==
    LET q == n \div d
        r == n % d
    IN  IF 2 * r > d THEN q + 1
        ELSE IF 2 * r < d THEN q
        ELSE IF q % 2 = 0 THEN q ELSE q + 1

\* a variant that drops the fraction of a minute
NativeValue_Floor(d) ==
    IF ~d.has THEN [available |-> FALSE, value |-> None]
    ELSE IF d.v.driving.duration <= 0 THEN [available |-> FALSE, value |-> None]
    ELSE [available |-> TRUE,
          value |-> Some(d.v.driving.duration \div SecondsPerMinute)]

\* native_value of coordinator.data d: the _attr_available it sets and the
\* value it returns
NativeValue(d) ==
    IF ~d.has THEN [available |-> FALSE, value |-> None]
    ELSE IF d.v.driving.duration <= 0 THEN [available |-> FALSE, value |-> None]
    ELSE [available |-> TRUE,
          value |-> Some(PyRound(d.v.driving.duration, SecondsPerMinute))]

\* the words of the attribute texts, written in pinyin: "unknown", "hours",
\* "minutes", "kilometres"
UnknownText == <<"weizhi">>
HoursUnit == <<"xiaoshi">>
MinutesUnit == <<"fenzhong">>
KmUnit == <<"gongli">>

\* str(n) with at least k digits
RECURSIVE Padded(_, _)
Padded(n, k) ==
    IF k <= 1 THEN IntText(n)
    ELSE IF n < Pow10(k - 1) THEN <<"0">> \o Padded(n, k - 1)
    ELSE IntText(n)

\* f"{n / d:.{k}f}" for n >= 0: n / d to k decimals (the inputs of the model
\* have no value that lies halfway between two such decimals)
Fixed(n, d, k) ==
    LET scaled == PyRound(n * Pow10(k), d)
    IN  IntText(scaled \div Pow10(k)) \o <<".">> \o Padded(scaled % Pow10(k), k)

\* a variant that shows hours from two hours on
DurationDisplay_FromTwoHours(seconds) ==
    IF seconds <= 0 THEN UnknownText
    ELSE IF seconds >= TwoHoursInMinutes * SecondsPerMinute
    THEN Fixed(seconds, SecondsPerMinute * MinutesPerHour, 2) \o HoursUnit
    ELSE IntText(seconds \div SecondsPerMinute) \o MinutesUnit

\* the display of a duration in seconds
DurationDisplay(seconds) ==
    IF seconds <= 0 THEN UnknownText
    ELSE IF seconds > TwoHoursInMinutes * SecondsPerMinute
    THEN Fixed(seconds, SecondsPerMinute * MinutesPerHour, 2) \o HoursUnit
    ELSE IntText(seconds \div SecondsPerMinute) \o MinutesUnit

\* the display of a distance in meters
DistanceDisplay(meters) ==
    IF meters <= 0 THEN UnknownText ELSE Fixed(meters, MetersPerKm, 1) \o KmUnit

NoAttributes ==
    [empty |-> TRUE, driving_duration |-> <<>>, driving_distance |-> <<>>,
     transit_duration |-> <<>>, transit_distance |-> <<>>]

\* extra_state_attributes of coordinator.data d
ExtraStateAttributes(d) ==
    IF ~d.has THEN NoAttributes
    ELSE [empty |-> FALSE,
          driving_duration |-> DurationDisplay(d.v.driving.duration),
          driving_distance |-> DistanceDisplay(d.v.driving.distance),
          transit_duration |-> DurationDisplay(d.v.transit.duration),
          transit_distance |-> DistanceDisplay(d.v.transit.distance)]

\* icon
Icon(s) == IF ~s.available THEN "mdi:car-off" ELSE "mdi:car-clock"

(***************************************************************************)
(* Entry setup, the refresh task, unload and the options flow              *)
(***************************************************************************)

EntryId == "entry1"

NoData == [has |-> FALSE, v |-> ZeroSnapshot]

Request(url, c) == [url |-> url, origin |-> c.origin, destination |-> c.destination]

NoTick ==
    [first |-> FALSE, entity |-> AbsentEntity, requests |-> <<>>,
     drv |-> NoResponse, driving |-> ZeroEstimate]

NoRefresh ==
    [done |-> FALSE, first |-> FALSE, entity |-> AbsentEntity,
     requests |-> <<>>, drv |-> NoResponse, trn |-> NoResponse,
     raised |-> "none"]

NoRead ==
    [prop |-> "none", seen |-> NoData, refresh |-> NoRefresh, value |-> None,
     attrs |-> NoAttributes, icon |-> "", before |-> FALSE]

\* _async_update_data is over (exception exc inside its try block, or value
\* v): the coordinator keeps what it returned.  When this was the first
\* refresh, async_setup_entry goes on: it registers the coordinator and
\* forwards the entry to the sensor platform, which may fail; the platform
\* adds the sensor when the coordinator has data.
EndRefresh(t, trn, exc, v) ==
    LET r == AsyncUpdateData(exc, v)
    IN  /\ pc' = "idle"
        /\ tick' = NoTick
        /\ data' = IF r.raised = "none" THEN [has |-> TRUE, v |-> r.value] ELSE data
        /\ last_refresh' =
               [done |-> TRUE, first |-> t.first, entity |-> t.entity,
                requests |-> t.requests, drv |-> t.drv, trn |-> trn,
                raised |-> r.raised]
        /\ IF t.first
           THEN IF r.raised # "none"
                THEN /\ setup_result' = "false"
                     /\ UNCHANGED <<hass_data, sensor>>
                ELSE /\ hass_data' = hass_data \cup {EntryId}
                     /\ \E forwarded \in BOOLEAN :
                          /\ setup_result' = IF forwarded THEN "true" ELSE "false"
                          /\ sensor' = IF forwarded THEN NewSensor ELSE sensor
           ELSE UNCHANGED <<setup_result, hass_data, sensor>>

\* the start of _async_update_data for coordinator c: entity positions are
\* updated; a failure ends the refresh with the zero Snapshot
BeginRefresh(c, first) ==
    LET u == UpdateEntityLocations(c, hass_states)
        t == [NoTick EXCEPT !.first = first, !.entity = hass_states]
    IN  /\ coordinator' = u.coordinator
        /\ IF u.ok
           THEN /\ pc' = "driving"
                /\ tick' = t
                /\ last_refresh' = NoRefresh
                /\ data' = IF first THEN NoData ELSE data
                /\ setup_result' = IF first THEN "running" ELSE setup_result
                /\ UNCHANGED <<hass_data, sensor>>
           ELSE EndRefresh(t, NoResponse, "none", ZeroSnapshot)

\* async_setup_entry, up to the first request of the first refresh
Setup ==
    /\ pc = "idle"
    /\ setup_result \notin {"true", "running"}
    /\ LET s == SetupChecks(entry, hass_states)
       IN  IF s.outcome = "ok" THEN BeginRefresh(s.coordinator, TRUE)
           ELSE /\ setup_result' = IF s.outcome = "false" THEN "false" ELSE "raised"
                /\ UNCHANGED <<coordinator, hass_data, tickVars, sensor>>
    /\ UNCHANGED <<hass_states, entry, wizardVars, last_read>>

\* the host's timer starts a refresh of the loaded entry
TickStart ==
    /\ pc = "idle"
    /\ setup_result = "true"
    /\ coordinator.has
    /\ BeginRefresh(coordinator, FALSE)
    /\ UNCHANGED <<hass_states, entry, wizardVars, last_read>>

\* the coordinator as a fetch leaves it before its request: endpoints still
\* in entity form are updated once more
BeforeRequest(c, states) ==
    IF \/ c.origin.t = "str" /\ StartsWith(c.origin.s, EntityPrefix)
       \/ c.destination.t = "str" /\ StartsWith(c.destination.s, EntityPrefix)
    THEN UpdateEntityLocations(c, states).coordinator
    ELSE c

\* not self.origin or not self.destination
NoEndpoints(c) ==
    \/ c.origin.t # "str" \/ Len(c.origin.s) = 0
    \/ c.destination.t # "str" \/ Len(c.destination.s) = 0

\* _fetch_driving_route, the request answered by one of Rs
FetchDriving(Rs) ==
    /\ pc = "driving"
    /\ IF NoEndpoints(coordinator)
       THEN /\ pc' = "transit"
            /\ tick' = [tick EXCEPT !.driving = ZeroEstimate]
            /\ UNCHANGED <<coordinator, data, last_refresh, setup_result,
                           hass_data, sensor>>
       ELSE LET c == BeforeRequest(coordinator, hass_states)
                sent == Append(tick.requests, Request("driving", c))
            IN  /\ coordinator' = c
                /\ \E r \in Rs :
                     IF r.net = "timeout"
                     THEN EndRefresh([tick EXCEPT !.requests = sent, !.drv = r],
                                     NoResponse, "TimeoutError", ZeroSnapshot)
                     ELSE /\ pc' = "transit"
                          /\ tick' = [tick EXCEPT !.requests = sent, !.drv = r,
                                                  !.driving = DrivingRoute(r)]
                          /\ UNCHANGED <<data, last_refresh, setup_result,
                                         hass_data, sensor>>
    /\ UNCHANGED <<hass_states, entry, wizardVars, last_read>>

\* _fetch_transit_route, the request answered by one of Rs, and the return
\* of _async_update_data
FetchTransit(Rs) ==
    /\ pc = "transit"
    /\ IF NoEndpoints(coordinator)
       THEN /\ EndRefresh(tick, NoResponse, "none",
                          Snapshot(tick.driving, ZeroEstimate))
            /\ UNCHANGED coordinator
       ELSE LET c == BeforeRequest(coordinator, hass_states)
                sent == Append(tick.requests, Request("transit", c))
            IN  /\ coordinator' = c
                /\ \E r \in Rs :
                     IF r.net = "timeout"
                     THEN EndRefresh([tick EXCEPT !.requests = sent], r,
                                     "TimeoutError",
                                     Snapshot(tick.driving, ZeroEstimate))
                     ELSE EndRefresh([tick EXCEPT !.requests = sent], r, "none",
                                     Snapshot(tick.driving, TransitRoute(r)))
    /\ UNCHANGED <<hass_states, entry, wizardVars, last_read>>

\* async_unload_entry
Unload ==
    /\ pc = "idle"
    /\ setup_result = "true"
    /\ \E unload_ok \in BOOLEAN :
         IF unload_ok
         THEN /\ hass_data' = hass_data \ {EntryId}
              /\ setup_result' = "unloaded"
              /\ sensor' = NoSensor
         ELSE UNCHANGED <<hass_data, setup_result, sensor>>
    /\ UNCHANGED <<hass_states, entry, coordinator, tickVars, wizardVars,
                   last_read>>

OptionIntervals == {JNum(MinInterval, 1), JNum(MaxInterval, 1)}

\* OptionsFlowHandler.async_step_init with user input: the host stores the
\* submitted record as the entry's options
OptionsStepInit ==
    /\ \E n \in OptionIntervals : entry' = [entry EXCEPT !.options = n]
    /\ UNCHANGED <<hass_states, coordinator, setup_result, hass_data, tickVars,
                   wizardVars, sensorVars>>

\* the tracked entity moves, loses an attribute, or leaves the host's state
EntityChange(Sts) ==
    /\ \E st \in Sts : hass_states' = st
    /\ UNCHANGED <<entry, coordinator, setup_result, hass_data, tickVars,
                   wizardVars, sensorVars>>

\* the host reads a property of the sensor: what the property saw (the
\* coordinator's data, the refresh that produced it) and what it returned
Read(prop, value, attrs, icon) ==
    [prop |-> prop, seen |-> data, refresh |-> last_refresh, value |-> value,
     attrs |-> attrs, icon |-> icon, before |-> sensor.available]

ReadNativeValue ==
    /\ sensor.exists
    /\ sensor' = [sensor EXCEPT !.available = NativeValue(data).available]
    /\ last_read' = Read("native_value", NativeValue(data).value,
                         NoAttributes, "")
    /\ UNCHANGED <<hostVars, tickVars, wizardVars>>

ReadExtraStateAttributes ==
    /\ sensor.exists
    /\ last_read' = Read("extra_state_attributes", None,
                         ExtraStateAttributes(data), "")
    /\ UNCHANGED <<hostVars, tickVars, wizardVars, sensor>>

ReadIcon ==
    /\ sensor.exists
    /\ last_read' = Read("icon", None, NoAttributes, Icon(sensor))
    /\ UNCHANGED <<hostVars, tickVars, wizardVars, sensor>>

(***************************************************************************)
(* Initial states and specifications                                       *)
(***************************************************************************)

LiteralOrigin ==
    CoordinatesText(JStr(<<"1", "1", "6", ".", "4">>), JStr(<<"3", "9", ".", "9">>))
LiteralDestination ==
    CoordinatesText(JStr(<<"1", "1", "7", ".", "2">>), JStr(<<"3", "1", ".", "8">>))

\* the flows the wizard can complete: validated step-1 data and, for each
\* endpoint, the tracked entity or literal coordinates
CompleteFlows ==
    {[origin_data |->
          [has |-> TRUE,
           v |-> [city |-> ValidCity, api_key |-> ValidKey,
                  update_interval |-> JNum(DEFAULT_UPDATE_INTERVAL, 1)]],
      origin_entity_id |-> IF oe THEN Attr(JStr(TrackedId)) ELSE NoAttr,
      origin_coordinates |-> IF oe THEN NoAttr ELSE Attr(LiteralOrigin),
      destination_entity_id |-> IF de THEN Attr(JStr(TrackedId)) ELSE NoAttr,
      destination_coordinates |-> IF de THEN NoAttr ELSE Attr(LiteralDestination)] :
        oe \in BOOLEAN, de \in BOOLEAN}

\* the configuration entries those flows persist
Entries == {[data |-> FinishData(f), options |-> JMissing] : f \in CompleteFlows}

NoConfigEntry == [data |-> NoEntryData, options |-> JMissing]

WizardIdle ==
    /\ flow = EmptyFlow
    /\ step_result = NoStep
    /\ created = NoEntry

HostIdle ==
    /\ coordinator = NoCoordinator
    /\ setup_result = "none"
    /\ hass_data = {}
    /\ pc = "idle"
    /\ tick = NoTick
    /\ data = NoData
    /\ last_refresh = NoRefresh
    /\ sensor = NoSensor
    /\ last_read = NoRead

\* the entry's life cycle: a persisted entry, the tracked entity in any state
Init ==
    /\ WizardIdle
    /\ HostIdle
    /\ hass_states \in EntityStates
    /\ entry \in Entries

Next ==
    \/ Setup
    \/ TickStart
    \/ FetchDriving(SampleResponses)
    \/ FetchTransit(SampleResponses)
    \/ Unload
    \/ OptionsStepInit
    \/ EntityChange(EntityStates)

Spec == Init /\ [][Next]_vars

\* the refresh against every response: the tracked entity present or absent
HomeEntity == [present |-> TRUE, longitude |-> JNum(1, 1), latitude |-> JNum(1, 1)]

FetchEntries == {e \in Entries : e.data.destination = LiteralDestination}

FetchInit ==
    /\ WizardIdle
    /\ HostIdle
    /\ hass_states = HomeEntity
    /\ entry \in FetchEntries

FetchNext ==
    \/ Setup
    \/ TickStart
    \/ FetchDriving(DrivingResponses)
    \/ FetchTransit(TransitResponses)
    \/ EntityChange({AbsentEntity, HomeEntity})

FetchSpec == FetchInit /\ [][FetchNext]_vars

\* refreshes whose requests always end: each one is answered, fails, or is
\* cut short by the 10 s timeout of _async_update_data
TimeoutResponses ==
    SampleResponses \cup {[NoResponse EXCEPT !.net = "timeout"]}

TimeoutNext ==
    \/ Setup
    \/ TickStart
    \/ FetchDriving(TimeoutResponses)
    \/ FetchTransit(TimeoutResponses)
    \/ EntityChange({AbsentEntity, HomeEntity})

TimeoutSpec ==
    /\ FetchInit
    /\ [][TimeoutNext]_vars
    /\ WF_vars(FetchDriving(TimeoutResponses))
    /\ WF_vars(FetchTransit(TimeoutResponses))

\* the sensor beside the refresh: driving durations on both sides of a
\* minute's half and of two hours, a negative one, failures
SensorDurations == {90, 150, 600, 7200, 7201, 9000}

DurationBody(d) ==
    Body(StatusOne, "OK", "dict", "list", JStr(IntText(d)), GoodField)

SensorDriving ==
    {DurationBody(d) : d \in SensorDurations}
    \cup {Body(StatusOne, "OK", "dict", "list", JStr(<<"-", "5">>), GoodField),
          [NoResponse EXCEPT !.net = "error"],
          [NoResponse EXCEPT !.net = "timeout"]}

SensorTransit ==
    {DurationBody(600), DurationBody(7200), DurationBody(9000),
     [NoResponse EXCEPT !.net = "error"],
     [NoResponse EXCEPT !.net = "timeout"]}

SensorInit ==
    /\ WizardIdle
    /\ HostIdle
    /\ hass_states = HomeEntity
    /\ entry \in {e \in Entries : /\ e.data.origin = LiteralOrigin
                                  /\ e.data.destination = LiteralDestination}

SensorNext ==
    \/ Setup
    \/ TickStart
    \/ FetchDriving(SensorDriving)
    \/ FetchTransit(SensorTransit)
    \/ ReadNativeValue
    \/ ReadExtraStateAttributes
    \/ ReadIcon

SensorSpec == SensorInit /\ [][SensorNext]_vars

\* the wizard: the host calls any step handler with any input
WizardInit ==
    /\ WizardIdle
    /\ HostIdle
    /\ hass_states = AbsentEntity
    /\ entry = NoConfigEntry

WizardNext ==
    \/ CallUser
    \/ CallOrigin
    \/ CallOriginEntity
    \/ CallOriginCoordinates
    \/ CallDestination
    \/ CallDestinationEntity
    \/ CallDestinationCoordinates
    \/ CallFinish
    \/ StartFlow

WizardSpec == WizardInit /\ [][WizardNext]_vars

(***************************************************************************)
(* Properties of the refresh                                               *)
(***************************************************************************)

\* a refresh has completed and both requests were answered
BothAnswered ==
    /\ last_refresh.done
    /\ last_refresh.drv.net \in {"ok", "error"}
    /\ last_refresh.trn.net \in {"ok", "error"}

\* the request failed: a network error, a body that is no object, a status
\* other than "1", or a route or list of the wrong shape
RequestFailed(r) ==
    \/ r.net = "error"
    \/ r.net = "ok" /\ ~r.isdict
    \/ r.net = "ok" /\ r.isdict /\ r.status # StatusOne
    \/ r.net = "ok" /\ r.isdict /\ r.status = StatusOne
         /\ (r.route = "nondict" \/ r.items \in {"nonlist", "nondict"})

EstimateKeys == {"duration", "distance"}

\* C1: _async_update_data never propagates an exception: whatever entity
\* resolution and the two requests come to (timeout, network error,
\* malformed or mistyped body, any status), the refresh returns a record
\* with exactly the keys driving and transit, each a record with exactly an
\* integer duration and an integer distance.
C1_NeverRaises ==
    last_refresh.done =>
        /\ last_refresh.raised = "none"
        /\ data.has
        /\ DOMAIN data.v = {"driving", "transit"}
        /\ \A k \in DOMAIN data.v :
              /\ DOMAIN data.v[k] = EstimateKeys
              /\ \A x \in EstimateKeys : data.v[k][x] \in Int

\* C1 witness: a scheduled refresh whose driving request met a network
\* error and whose transit request ran into the timeout has returned
C1_Witness ==
    /\ last_refresh.done
    /\ ~last_refresh.first
    /\ last_refresh.drv.net = "error"
    /\ last_refresh.trn.net = "timeout"
    /\ data = [has |-> TRUE, v |-> ZeroSnapshot]

\* C2 (as claimed): when either request of a refresh fails, the Snapshot of
\* that refresh is all-zero, whatever the other request returned.
C2_ZeroSnapshotOnAnyFailure ==
    (BothAnswered
       /\ (RequestFailed(last_refresh.drv) \/ RequestFailed(last_refresh.trn)))
    => data.v = ZeroSnapshot

\* C2 (amended): a failed request zeroes its own estimate only; the other
\* request's estimate is what that request returned.
C2_FailureZeroesOwnEstimate ==
    BothAnswered =>
        /\ RequestFailed(last_refresh.drv) => data.v.driving = ZeroEstimate
        /\ RequestFailed(last_refresh.trn) => data.v.transit = ZeroEstimate
        /\ last_refresh.drv = GoodResponse => data.v.driving = Estimate(900, 900)
        /\ last_refresh.trn = GoodResponse => data.v.transit = Estimate(900, 900)

\* C2 witness: the driving request failed with an API status other than "1"
\* and the transit estimate of the same refresh is kept
C2_Witness ==
    /\ BothAnswered
    /\ last_refresh.drv.status = StatusZero
    /\ last_refresh.trn = GoodResponse
    /\ data.v = Snapshot(ZeroEstimate, Estimate(900, 900))

\* C3 (as claimed): the four fields of every Snapshot are integers >= 0,
\* also for responses whose duration or distance is negative.
C3_NonNegativeFields ==
    data.has =>
        \A k \in {"driving", "transit"} : \A x \in EstimateKeys :
            data.v[k][x] \in Int /\ data.v[k][x] >= 0

\* value is an entity reference of the persisted configuration
IsEntityRef(value) == value.t = "str" /\ StartsWith(value.s, EntityPrefix)

\* the entity state carries both coordinates
Located(st) ==
    st.present /\ st.longitude.t # "missing" /\ st.latitude.t # "missing"

\* the requests issued so far by the refresh a step belongs to, after the step
RequestsAfter == IF pc' = "idle" THEN last_refresh'.requests ELSE tick'.requests

\* C4 (as claimed): every request of a refresh, the first one or a later
\* one, carries for an endpoint configured as an entity reference the
\* position the entity had when that refresh started, also after the entity
\* has moved since the previous refresh.
C4_RequestsUseCurrentPosition ==
    [][(/\ pc \in {"driving", "transit"}
        /\ Len(RequestsAfter) = Len(tick.requests) + 1
        /\ Located(tick.entity))
       => LET sent == RequestsAfter[Len(RequestsAfter)]
          IN  /\ IsEntityRef(entry.data.origin) =>
                    sent.origin = JStr(PositionText(tick.entity))
              /\ IsEntityRef(entry.data.destination) =>
                    sent.destination = JStr(PositionText(tick.entity))]_vars

\* C5 (as claimed): a refresh that starts while an entity-referenced
\* endpoint names an entity that is absent or lacks a coordinate returns
\* the all-zero Snapshot, issues no request and raises nothing.
C5_UnresolvedEntityGivesZero ==
    (/\ last_refresh.done
     /\ IsEntityRef(entry.data.origin) \/ IsEntityRef(entry.data.destination)
     /\ ~Located(last_refresh.entity))
    => /\ data.v = ZeroSnapshot
       /\ last_refresh.requests = <<>>
       /\ last_refresh.raised = "none"

(***************************************************************************)
(* Properties of the wizard                                                *)
(***************************************************************************)

\* step-1 data as the wizard's contract accepts it: a 32-character
\* alphanumeric key, a non-empty city of at most 20 characters, an interval
\* (30 when not submitted) that is a number whose integer part is in 1..60
ValidUserData(d) ==
    LET i == GetOr(d.update_interval, JNum(DEFAULT_UPDATE_INTERVAL, 1))
        n == PyFloat(i)
    IN  /\ d.api_key.t = "str" /\ Len(d.api_key.s) = KeyLen /\ IsAlnum(d.api_key.s)
        /\ d.city.t = "str" /\ Len(d.city.s) \in 1..CityMaxLen
        /\ n.exc = "none" /\ n.val.kind = "fin"
        /\ MinInterval * n.val.den <= n.val.num
        /\ n.val.num < (MaxInterval + 1) * n.val.den

\* C6 (as claimed): a submission to step 1 advances to the origin step and
\* is recorded exactly when key, city and interval are valid; any other
\* submission re-shows step 1 with an error and leaves the wizard as it was.
C6_UserStepValidates ==
    [][(step_result'.step = "user" /\ ~step_result'.input.none)
       => LET in == step_result'.input
              r == step_result'.result
          IN  IF ValidUserData(UserData(in))
              THEN /\ r = ShowForm("origin", "")
                   /\ flow'.origin_data = [has |-> TRUE, v |-> UserData(in)]
              ELSE /\ r.type = "form" /\ r.step_id = "user" /\ r.errors # ""
                   /\ flow' = flow /\ ~created'.has]_vars

\* both components are numbers, latitude in [-90, 90], longitude in
\* [-180, 180]
ValidCoordinates(in) ==
    LET lon == PyFloat(Get(in.longitude))
        lat == PyFloat(Get(in.latitude))
    IN  /\ lon.exc = "none" /\ lat.exc = "none"
        /\ FloatBetween(-180, lon.val, 180)
        /\ FloatBetween(-90, lat.val, 90)

\* C7 (as claimed): a submission to a coordinates step records the literal
\* "<longitude>,<latitude>" and advances when both components are numbers in
\* range; any other submission re-shows the same step with an error and
\* records nothing.
C7_CoordinatesStepValidates ==
    [][(/\ step_result'.step \in {"origin_coordinates", "destination_coordinates"}
        /\ ~step_result'.input.none)
       => LET in == step_result'.input
              r == step_result'.result
              st == step_result'.step
              literal == JStr(in.longitude.s \o Comma \o in.latitude.s)
          IN  IF ValidCoordinates(in)
              THEN /\ r.type # "raise" /\ r.errors = "" /\ r.step_id # st
                   /\ IF st = "origin_coordinates"
                      THEN flow'.origin_coordinates = Attr(literal)
                      ELSE flow'.destination_coordinates = Attr(literal)
              ELSE /\ r.type = "form" /\ r.step_id = st /\ r.errors # ""
                   /\ flow' = flow /\ ~created'.has]_vars

\* the first step whose data the wizard f does not hold, "" when it holds
\* step-1 data, an origin and a destination
FirstUnsatisfied(f) ==
    IF ~f.origin_data.has THEN "user"
    ELSE IF ~f.origin_entity_id.has /\ ~f.origin_coordinates.has THEN "origin"
    ELSE IF ~f.destination_entity_id.has /\ ~f.destination_coordinates.has
         THEN "destination"
    ELSE ""

\* the step call that has just returned went through async_step_finish:
\* called directly, or from a destination step that accepted its input
FinishReached(sr) ==
    \/ sr.step = "finish"
    \/ sr.step = "destination" /\ ~sr.input.none
         /\ sr.input.location_type.t = "missing"
    \/ sr.step = "destination_entity" /\ ~sr.input.none
    \/ sr.step = "destination_coordinates" /\ ~sr.input.none
         /\ sr.result.type # "raise" /\ sr.result.errors = ""

\* C8: async_step_finish, however it is reached, creates the entry exactly
\* when validated step-1 data, an origin and a destination are recorded, and
\* otherwise creates nothing and shows the form of the first unsatisfied
\* step; no entry exists without the three.
C8_FinishNeedsAllSteps ==
    [][/\ created'.has =>
            /\ FirstUnsatisfied(flow') = ""
            /\ ValidUserData(flow'.origin_data.v)
       /\ FinishReached(step_result') =>
            IF FirstUnsatisfied(flow') = ""
            THEN created'.has /\ step_result'.result = CreateEntry
            ELSE /\ ~created'.has
                 /\ step_result'.result = ShowForm(FirstUnsatisfied(flow'), "")]_vars

\* C8 witness: finish was called with an origin and a destination recorded
\* but no step-1 data; nothing was created and step 1 is shown
C8_Witness ==
    /\ step_result.step = "finish"
    /\ ~flow.origin_data.has
    /\ flow.origin_coordinates.has
    /\ flow.destination_entity_id.has
    /\ step_result.result = ShowForm("user", "")
    /\ ~created.has

\* value is the persisted form of exactly one representation
OneRepresentation(value) ==
    /\ value.t = "str"
    /\ IsEntityRef(value) # Contains(value.s, Comma)

\* C9 (as claimed): the wizard never holds an entity id and coordinates for
\* the same endpoint, and a persisted endpoint is "entity:<id>" or a
\* "lon,lat" literal.
C9_NeverBothHeld ==
    /\ ~(flow.origin_entity_id.has /\ flow.origin_coordinates.has)
    /\ ~(flow.destination_entity_id.has /\ flow.destination_coordinates.has)
    /\ created.has =>
          /\ OneRepresentation(created.data.origin)
          /\ OneRepresentation(created.data.destination)

\* C9 (amended): every persisted endpoint is in exactly one representation,
\* "entity:<id>" when the wizard holds an entity id for the endpoint (also
\* when it holds coordinates as well) and the "lon,lat" literal otherwise.
C9_PersistedOneRepresentation ==
    created.has =>
        /\ OneRepresentation(created.data.origin)
        /\ OneRepresentation(created.data.destination)
        /\ IF flow.origin_entity_id.has
           THEN /\ IsEntityRef(created.data.origin)
                /\ created.data.origin_entity_id = flow.origin_entity_id.v
           ELSE /\ created.data.origin = flow.origin_coordinates.v
                /\ created.data.origin_entity_id = JMissing
        /\ IF flow.destination_entity_id.has
           THEN /\ IsEntityRef(created.data.destination)
                /\ created.data.destination_entity_id = flow.destination_entity_id.v
           ELSE /\ created.data.destination = flow.destination_coordinates.v
                /\ created.data.destination_entity_id = JMissing

\* C9 witness: an entry was persisted from a wizard that held both an entity
\* id and coordinates for the origin; the entity reference was persisted
C9_Witness ==
    /\ created.has
    /\ flow.origin_entity_id.has /\ flow.origin_coordinates.has
    /\ IsEntityRef(created.data.origin)
    /\ ~Contains(created.data.origin.s, Comma)

(***************************************************************************)
(* Properties of the entry setup                                           *)
(***************************************************************************)

\* C10 (as claimed): a setup of an entry whose options hold an update
\* interval creates the coordinator with that interval, whatever interval
\* the entry's data holds.
C10_OptionsOverrideInterval ==
    [][(/\ pc = "idle" /\ pc' = "driving" /\ tick'.first
        /\ entry.options.t # "missing")
       => coordinator'.update_interval = PyIntFloat(entry.options).val.num]_vars

(***************************************************************************)
(* Properties of the two estimates                                         *)
(***************************************************************************)

\* the response has status "1" and a list with a first element in its route
HasFirstItem(r) ==
    /\ r.net = "ok" /\ r.isdict /\ r.status = StatusOne
    /\ r.route = "dict" /\ r.items = "list"

\* int() of a field of the first element, 0 for an absent field
FieldInt(v) == PyInt(GetOr(v, JNum(0, 1)))

\* C11: the driving estimate of a refresh is {int(duration), int(distance)}
\* of the first path when the response has status "1", a non-empty paths
\* list and fields int() accepts (an absent field counting as 0), and is
\* {0, 0}, with nothing raised, in every other case.
C11_DrivingEstimate ==
    BothAnswered =>
        LET r == last_refresh.drv
        IN  /\ last_refresh.raised = "none"
            /\ IF /\ HasFirstItem(r)
                  /\ FieldInt(r.duration).exc = "none"
                  /\ FieldInt(r.distance).exc = "none"
               THEN data.v.driving = Estimate(FieldInt(r.duration).val.num,
                                              FieldInt(r.distance).val.num)
               ELSE data.v.driving = ZeroEstimate

\* C11 witness: a status "1" response whose first path has duration 7.5 and
\* distance "900" gave the driving estimate {7, 900}
C11_Witness ==
    /\ BothAnswered
    /\ HasFirstItem(last_refresh.drv)
    /\ last_refresh.drv.duration = JNum(75, 10)
    /\ last_refresh.drv.distance = GoodField
    /\ data.v.driving = Estimate(7, 900)

\* C12: on a transit response with status "1" and a first transit, the
\* estimate's distance is int() of route.distance, whatever distance the
\* first transit carries, and its duration is int() of the first transit's
\* duration (fields int() accepts, an absent field counting as 0).
C12_TransitEstimate ==
    (/\ BothAnswered
     /\ HasFirstItem(last_refresh.trn)
     /\ FieldInt(last_refresh.trn.duration).exc = "none"
     /\ FieldInt(last_refresh.trn.distance).exc = "none")
    => data.v.transit = Estimate(FieldInt(last_refresh.trn.duration).val.num,
                                 FieldInt(last_refresh.trn.distance).val.num)

\* C12 witness: route.distance "900", a first transit with duration 7.5 and
\* a distance "7" of its own: the estimate is {7, 900}
C12_Witness ==
    /\ BothAnswered
    /\ HasFirstItem(last_refresh.trn)
    /\ last_refresh.trn.item_distance = JStr(<<"7">>)
    /\ last_refresh.trn.distance = GoodField
    /\ data.v.transit = Estimate(7, 900)

(***************************************************************************)
(* Properties of the sensor                                                *)
(***************************************************************************)

\* the whole number of minutes nearest to seconds, the even one of the two
\* when seconds lies halfway (what round() returns)
NearestMinute(seconds) ==
    LET lo == seconds \div 60
        up == lo + 1
    IN  IF 2 * (seconds - 60 * lo) < 60 THEN lo
        ELSE IF 2 * (seconds - 60 * lo) > 60 THEN up
        ELSE CHOOSE m \in {lo, up} : m % 2 = 0

\* the coordinator data d holds a Snapshot with a positive driving duration
PositiveDriving(d) == d.has /\ d.v.driving.duration > 0

\* C13: native_value is round(driving.duration / 60) when the Snapshot the
\* sensor reads has a driving duration > 0, and None when the duration is
\* <= 0 or there is no Snapshot.
C13_NativeValue ==
    last_read.prop = "native_value" =>
        IF PositiveDriving(last_read.seen)
        THEN last_read.value = Some(NearestMinute(last_read.seen.v.driving.duration))
        ELSE last_read.value = None

\* C13 witness: native_value read a Snapshot with driving duration 90 s and
\* returned 2 minutes
C13_Witness ==
    /\ last_read.prop = "native_value"
    /\ last_read.seen.has
    /\ last_read.seen.v.driving.duration = 90
    /\ last_read.value = Some(2)

\* C14: whatever the order of refreshes and property reads, the sensor's
\* availability flag equals (driving duration of the latest Snapshot > 0),
\* and a read of the icon gives mdi:car-off exactly when that is false and
\* mdi:car-clock otherwise.
C14_AvailabilityMirrorsDriving ==
    /\ sensor.exists => (sensor.available <=> PositiveDriving(data))
    /\ last_read.prop = "icon" =>
           last_read.icon = IF PositiveDriving(last_read.seen)
                            THEN "mdi:car-clock" ELSE "mdi:car-off"

\* the driving estimate that the finished refresh r produced
ProducedDriving(r) ==
    IF r.drv.net = "timeout" \/ r.trn.net = "timeout" THEN ZeroEstimate
    ELSE DrivingRoute(r.drv)

\* C15: the sensor's state is a number only if the most recent refresh
\* produced a positive driving duration; while a refresh is under way the
\* Snapshot stays the one of the last finished refresh, and a failed refresh
\* after a successful one replaces the Snapshot, so the earlier estimate is
\* not shown.
C15_StateFromLatestTick ==
    /\ [](/\ last_read.prop = "native_value"
          /\ last_read.value.defined
          /\ last_read.refresh.done
          => /\ last_read.refresh.raised = "none"
             /\ ProducedDriving(last_read.refresh).duration > 0)
    /\ [][sensor.exists /\ ~last_refresh'.done => data' = data]_vars

\* C15 witness: the sensor showed a number, then a refresh other than the
\* first failed, and native_value read after it is None
C15_Witness ==
    /\ last_read.prop = "native_value"
    /\ last_read.before
    /\ last_read.value = None
    /\ last_read.refresh.done
    /\ ~last_read.refresh.first
    /\ last_read.refresh.drv.net \in {"error", "timeout"}

\* text is a number of hours with two decimals, within half a hundredth of
\* seconds / 3600, followed by the hours unit
IsHoursText(text, seconds) ==
    \E h \in (seconds * 100) \div 3600 .. (seconds * 100) \div 3600 + 1 :
        /\ 2 * (IF 36 * h > seconds THEN 36 * h - seconds ELSE seconds - 36 * h) <= 36
        /\ text = IntText(h \div 100) \o <<".">>
                  \o <<DigitChar((h \div 10) % 10), DigitChar(h % 10)>>
                  \o <<"xiaoshi">>

\* text is the display the attributes give for a duration of seconds
IsDurationText(text, seconds) ==
    /\ IF seconds <= 0 THEN text = <<"weizhi">>
       ELSE IF seconds > 7200 THEN IsHoursText(text, seconds)
       ELSE text = IntText(seconds \div 60) \o <<"fenzhong">>
    /\ seconds = 9000 => text = <<"2", ".", "5", "0", "xiaoshi">>
    /\ seconds = 600 => text = <<"1", "0", "fenzhong">>
    /\ seconds = 7200 => text = <<"1", "2", "0", "fenzhong">>

\* C16: each duration attribute is the unknown text when the duration is
\* <= 0 s, hours with two decimals and the hours unit when it is > 7200 s,
\* and otherwise the whole minutes and the minutes unit; 9000 s gives 2.50
\* hours, 600 s gives 10 minutes and exactly 7200 s gives 120 minutes.
C16_DurationAttributes ==
    last_read.prop = "extra_state_attributes" /\ last_read.seen.has =>
        /\ IsDurationText(last_read.attrs.driving_duration,
                          last_read.seen.v.driving.duration)
        /\ IsDurationText(last_read.attrs.transit_duration,
                          last_read.seen.v.transit.duration)

\* C16 witness: the attributes were read on a Snapshot with a driving
\* duration of exactly 7200 s and a transit duration of 9000 s
C16_Witness ==
    /\ last_read.prop = "extra_state_attributes"
    /\ last_read.seen.has
    /\ last_read.seen.v.driving.duration = 7200
    /\ last_read.seen.v.transit.duration = 9000
    /\ last_read.attrs.driving_duration = <<"1", "2", "0", "fenzhong">>
    /\ last_read.attrs.transit_duration = <<"2", ".", "5", "0", "xiaoshi">>

(***************************************************************************)
(* Properties of the refresh, continued                                    *)
(***************************************************************************)

\* the 10 s budget elapsed in the finished refresh r
TimedOut(r) == r.done /\ (r.drv.net = "timeout" \/ r.trn.net = "timeout")

\* C17: a refresh in which the 10 s timeout elapses still returns, and it
\* returns the all-zero Snapshot without raising: a driving estimate it had
\* already obtained is discarded.  Every refresh that has begun comes to an
\* end.
C17_TimeoutGivesZeroSnapshot ==
    /\ [](TimedOut(last_refresh) =>
             /\ last_refresh.raised = "none"
             /\ data = [has |-> TRUE, v |-> ZeroSnapshot])
    /\ (pc # "idle") ~> (pc = "idle" /\ last_refresh.done)

\* C17 witness: the timeout elapsed during the transit request of a refresh
\* whose driving request had given a positive estimate
C17_Witness ==
    /\ last_refresh.done
    /\ last_refresh.trn.net = "timeout"
    /\ DrivingRoute(last_refresh.drv).duration > 0
    /\ data = [has |-> TRUE, v |-> ZeroSnapshot]

\* the field v is there and is not a number: int() does not accept its type
\* or its text
BadField(v) == v.t # "missing" /\ PyInt(v).exc # "none"

\* the transit response r does not have the expected shape
TransitShapeMismatch(r) ==
    \/ ~r.isdict
    \/ /\ r.status = StatusOne
       /\ \/ r.route = "nondict"
          \/ r.route = "dict" /\ r.items \in {"nonlist", "nondict"}
          \/ r.route = "dict" /\ r.items = "list" /\ BadField(r.duration)
          \/ r.route = "dict" /\ BadField(r.distance)

\* C18: when the transit response has a shape mismatch (response or route
\* not an object, transits not a list, first transit not an object, or a
\* duration or distance that is not a number), the transit estimate is
\* {0, 0}, never one field zeroed beside the other taken from the response.
C18_TransitMismatchGivesZero ==
    /\ last_refresh.done
    /\ last_refresh.trn.net = "ok"
    /\ TransitShapeMismatch(last_refresh.trn)
    => data.v.transit = ZeroEstimate

(***************************************************************************)
(* Properties of the wizard, continued                                     *)
(***************************************************************************)

\* the last step call was step, submitted (a dict) without the key field
SubmittedWithout(step, field) ==
    /\ step_result.step = step
    /\ ~step_result.input.none
    /\ step_result.input[field].t = "missing"

\* "entity:None"
EntityNone == JStr(EntityPrefix \o NoneText)

\* C19: a step submitted without its required input does not advance and
\* records nothing: a choice step without a location type does not go on to
\* the destination step (to the creation of the entry), an entity step
\* without an entity id records no entity, and no entry is created with an
\* endpoint "entity:None".
C19_MissingInputDoesNotAdvance ==
    /\ SubmittedWithout("origin", "location_type") =>
           step_result.result.step_id # "destination"
    /\ SubmittedWithout("destination", "location_type") =>
           step_result.result.type # "create_entry"
    /\ SubmittedWithout("origin_entity", "entity_id") =>
           ~(flow.origin_entity_id.has /\ flow.origin_entity_id.v = JNull)
    /\ SubmittedWithout("destination_entity", "entity_id") =>
           ~(flow.destination_entity_id.has /\ flow.destination_entity_id.v = JNull)
    /\ created.has =>
           /\ created.data.origin # EntityNone
           /\ created.data.destination # EntityNone

(***************************************************************************)
(* Properties of setup and unload                                          *)
(***************************************************************************)

\* C20: hass.data holds a coordinator for the entry exactly when the last
\* setup of the entry returned True and the entry has not been unloaded
\* since: a setup that returns False, whatever the reason, leaves none.
C20_RegisteredIffLoaded ==
    (EntryId \in hass_data) <=> (setup_result = "true")

====
